---------------------------- MODULE Spec2Model ----------------------------
(***************************************************************************)
(* restic-generator: a systemd generator that turns a TOML backup          *)
(* configuration into restic-<name>-{backup,forget,prune}.service units.   *)
(*                                                                         *)
(* Strings are TLA+ strings (\o concatenates, SubSeq slices).  An          *)
(* Option<T> is a sequence of length at most one: <<>> is None, <<v>> is   *)
(* Some(v).                                                                *)
(***************************************************************************)
EXTENDS Integers, Sequences, FiniteSets, TLC

VARIABLES
    args,        \* command line after the program name (env::args() from index 1)
    env,         \* the environment: USER, HOME, RESTIC_GENERATOR_CONFIG (Options)
    disk,        \* what reading + parsing the configuration file yields (Option<Config>)
    pc,          \* position of main
    error,       \* why the run aborted ("" while it has not)
    normal_dir,  \* main's normal_dir
    context,     \* the Context struct: config_path, program_name, hostname
    config,      \* Option<Config>: the parsed configuration once read
    idx,         \* index of the repository the for loop is at
    fs,          \* the output file system: path |-> the lines written to the file
    emitted,     \* the files this run created, in order: repo index, kind, path, complete
    fn_in,       \* input of the pure function under check (pure-function specifications)
    fn_out       \* Option: its result

vars == <<args, env, disk, pc, error, normal_dir, context, config, idx, fs,
          emitted, fn_in, fn_out>>

runVars == <<args, env, disk, pc, error, normal_dir, context, config, idx, fs, emitted>>

-----------------------------------------------------------------------------
(* Bounds *)

MaxRepos == 2

MaxExcludes == 2

-----------------------------------------------------------------------------
(* Option and string helpers *)

None == <<>>

Some(v) == <<v>>

is_some(o) == Len(o) > 0

unwrap_or(o, d) == IF is_some(o) THEN o[1] ELSE d

\* str::starts_with: a literal, case-sensitive prefix test
starts_with(s, p) == Len(p) <= Len(s) /\ SubSeq(s, 1, Len(p)) = p

Digits == <<"0", "1", "2", "3", "4", "5", "6", "7", "8", "9">>

\* format!("{}", n) for a usize: its decimal digits
RECURSIVE FmtUsize(_)
FmtUsize(n) ==
    IF n < 10 THEN Digits[n + 1]
    ELSE FmtUsize(n \div 10) \o Digits[(n % 10) + 1]

\* [String]::join(sep)
RECURSIVE join(_, _)
join(v, sep) ==
    IF Len(v) = 0 THEN ""
    ELSE IF Len(v) = 1 THEN v[1]
    ELSE v[1] \o sep \o join(Tail(v), sep)

\* Path::join for a relative file name
path_join(dir, file) ==
    IF dir = "" THEN file
    ELSE IF SubSeq(dir, Len(dir), Len(dir)) = "/" THEN dir \o file
    ELSE dir \o "/" \o file

-----------------------------------------------------------------------------
(* config.rs *)

RetentionFields ==
    <<"keep_last", "keep_hourly", "keep_daily", "keep_weekly",
      "keep_monthly", "keep_yearly", "keep_tag", "keep_within">>

\* RepositoryConfig::default() with a name and a location
DefaultRepository(name, location) ==
    [name |-> name, location |-> location,
     password_command |-> None, password_file |-> None,
     aws_access_key |-> None, aws_secret_access_key |-> None,
     keep_last |-> None, keep_hourly |-> None, keep_daily |-> None,
     keep_weekly |-> None, keep_monthly |-> None, keep_yearly |-> None,
     keep_tag |-> None, keep_within |-> None]

has_forget_policy_no_within(r) ==
    \/ is_some(r.keep_last)
    \/ is_some(r.keep_hourly)
    \/ is_some(r.keep_daily)
    \/ is_some(r.keep_weekly)
    \/ is_some(r.keep_monthly)
    \/ is_some(r.keep_yearly)
    \/ is_some(r.keep_tag)

has_forget_policy(r) ==
    \/ is_some(r.keep_last)
    \/ is_some(r.keep_hourly)
    \/ is_some(r.keep_daily)
    \/ is_some(r.keep_weekly)
    \/ is_some(r.keep_monthly)
    \/ is_some(r.keep_yearly)
    \/ is_some(r.keep_tag)
    \/ is_some(r.keep_within)

-----------------------------------------------------------------------------
(* main.rs: the pure functions *)

is_local_repository_no_rclone(location) ==
    /\ ~starts_with(location, "azure:")
    /\ ~starts_with(location, "b2:")
    /\ ~starts_with(location, "gs:")
    /\ ~starts_with(location, "s3:")
    /\ ~starts_with(location, "sftp:")
    /\ ~starts_with(location, "swift:")

is_local_repository(location) ==
    /\ ~starts_with(location, "azure:")
    /\ ~starts_with(location, "b2:")
    /\ ~starts_with(location, "gs:")
    /\ ~starts_with(location, "rclone:")
    /\ ~starts_with(location, "s3:")
    /\ ~starts_with(location, "sftp:")
    /\ ~starts_with(location, "swift:")

\* pushopt!(vec, "<flag>=\"{}\"", value): push only when the value is Some
pushopt(vec, flag, value) ==
    IF is_some(value) THEN Append(vec, flag \o "=\"" \o value[1] \o "\"") ELSE vec

\* the same for an Option<usize>, whose Display is its decimal form
pushopt_usize(vec, flag, value) ==
    IF is_some(value) THEN Append(vec, flag \o "=\"" \o FmtUsize(value[1]) \o "\"")
    ELSE vec

RECURSIVE push_excludes(_, _)
push_excludes(vec, exclude) ==
    IF Len(exclude) = 0 THEN vec
    ELSE push_excludes(Append(vec, "--exclude=\"" \o exclude[1] \o "\""), Tail(exclude))

RECURSIVE push_excludes_reversed(_, _)
push_excludes_reversed(vec, exclude) ==
    IF Len(exclude) = 0 THEN vec
    ELSE Append(push_excludes_reversed(vec, Tail(exclude)),
                "--exclude=\"" \o exclude[1] \o "\"")

backup_cmd_reversed(source, host, exclude) ==
    LET r0 == <<"restic", "backup", "--host=\"" \o host \o "\"">>
        r1 == push_excludes_reversed(r0, exclude)
        r2 == Append(r1, source)
    IN  join(r2, " ")

backup_cmd(source, host, exclude) ==
    LET r0 == <<"restic", "backup", "--host=\"" \o host \o "\"">>
        r1 == push_excludes(r0, exclude)
        r2 == Append(r1, source)
    IN  join(r2, " ")

forget_cmd_tag_last(host, path, repository) ==
    LET r0 == <<"restic", "forget", "--host=\"" \o host \o "\"",
                "--path=\"" \o path \o "\"">>
        r1 == pushopt_usize(r0, "--keep-last", repository.keep_last)
        r2 == pushopt_usize(r1, "--keep-hourly", repository.keep_hourly)
        r3 == pushopt_usize(r2, "--keep-daily", repository.keep_daily)
        r4 == pushopt_usize(r3, "--keep-weekly", repository.keep_weekly)
        r5 == pushopt_usize(r4, "--keep-monthly", repository.keep_monthly)
        r6 == pushopt_usize(r5, "--keep-yearly", repository.keep_yearly)
        r7 == pushopt(r6, "--keep-within", repository.keep_within)
        r8 == pushopt(r7, "--keep-tag", repository.keep_tag)
    IN  join(r8, " ")

forget_cmd(host, path, repository) ==
    LET r0 == <<"restic", "forget", "--host=\"" \o host \o "\"",
                "--path=\"" \o path \o "\"">>
        r1 == pushopt_usize(r0, "--keep-last", repository.keep_last)
        r2 == pushopt_usize(r1, "--keep-hourly", repository.keep_hourly)
        r3 == pushopt_usize(r2, "--keep-daily", repository.keep_daily)
        r4 == pushopt_usize(r3, "--keep-weekly", repository.keep_weekly)
        r5 == pushopt_usize(r4, "--keep-monthly", repository.keep_monthly)
        r6 == pushopt_usize(r5, "--keep-yearly", repository.keep_yearly)
        r7 == pushopt(r6, "--keep-tag", repository.keep_tag)
        r8 == pushopt(r7, "--keep-within", repository.keep_within)
    IN  join(r8, " ")

-----------------------------------------------------------------------------
(* main.rs: the unit files, as the sequence of lines written with writeln! *)

UnitKinds == {"backup", "forget", "prune"}

\* format!("restic-{}-<kind>.service", repository.name) joined to normal_dir
unit_path_no_name(dir, name, kind) ==
    path_join(dir, "restic-" \o kind \o ".service")

unit_path(dir, name, kind) ==
    path_join(dir, "restic-" \o name \o "-" \o kind \o ".service")

\* the four optional Environment= lines, the same in the three units
auth_env(repository) ==
    (IF is_some(repository.password_file)
       THEN <<"Environment=RESTIC_PASSWORD_FILE=\"" \o repository.password_file[1] \o "\"">>
       ELSE <<>>)
    \o (IF is_some(repository.password_command)
       THEN <<"Environment=RESTIC_PASSWORD_COMMAND=\"" \o repository.password_command[1] \o "\"">>
       ELSE <<>>)
    \o (IF is_some(repository.aws_access_key)
       THEN <<"Environment=AWS_ACCESS_KEY=\"" \o repository.aws_access_key[1] \o "\"">>
       ELSE <<>>)
    \o (IF is_some(repository.aws_secret_access_key)
       THEN <<"Environment=AWS_SECRET_ACCESS_KEY=\"" \o repository.aws_secret_access_key[1] \o "\"">>
       ELSE <<>>)

backup_unit_always_conditioned(ctx, cfg, repository) ==
    <<"# generated by " \o ctx.program_name,
      "[Unit]",
      "Description=backup " \o cfg.source \o " to " \o repository.location,
      "SourcePath=" \o ctx.config_path,
      "ConditionPathExists=" \o cfg.source,
      "ConditionPathExists=" \o repository.location,
      "",
      "[Service]",
      "Environment=RESTIC_REPOSITORY=\"" \o repository.location \o "\"">>
    \o auth_env(repository)
    \o <<"Type=oneshot",
         "ExecStartPre=restic unlock",
         "ExecStart=" \o backup_cmd(cfg.source, unwrap_or(cfg.host, ctx.hostname),
                                    cfg.exclude),
         "SuccessExitStatus=3",
         "Nice=10",
         "IOSchedulingClass=idle">>

backup_unit(ctx, cfg, repository) ==
    <<"# generated by " \o ctx.program_name,
      "[Unit]",
      "Description=backup " \o cfg.source \o " to " \o repository.location,
      "SourcePath=" \o ctx.config_path,
      "ConditionPathExists=" \o cfg.source>>
    \o (IF is_local_repository(repository.location)
          THEN <<"ConditionPathExists=" \o repository.location>>
          ELSE <<>>)
    \o <<"",
         "[Service]",
         "Environment=RESTIC_REPOSITORY=\"" \o repository.location \o "\"">>
    \o auth_env(repository)
    \o <<"Type=oneshot",
         "ExecStartPre=restic unlock",
         "ExecStart=" \o backup_cmd(cfg.source, unwrap_or(cfg.host, ctx.hostname),
                                    cfg.exclude),
         "SuccessExitStatus=3",
         "Nice=10",
         "IOSchedulingClass=idle">>

forget_unit(ctx, cfg, repository) ==
    <<"# generated by " \o ctx.program_name,
      "[Unit]",
      "Description=forget " \o cfg.source \o " from " \o repository.location,
      "SourcePath=" \o ctx.config_path,
      "",
      "[Service]",
      "Environment=RESTIC_REPOSITORY=\"" \o repository.location \o "\"">>
    \o auth_env(repository)
    \o <<"Type=oneshot",
         "ExecStartPre=restic unlock",
         "ExecStart=" \o forget_cmd(unwrap_or(cfg.host, ctx.hostname), cfg.source,
                                    repository),
         "Nice=10",
         "IOSchedulingClass=idle">>

prune_unit(ctx, cfg, repository) ==
    <<"# generated by " \o ctx.program_name,
      "[Unit]",
      "Description=Prune " \o repository.location,
      "SourcePath=" \o ctx.config_path,
      "",
      "[Service]",
      "Environment=RESTIC_REPOSITORY=\"" \o repository.location \o "\"">>
    \o auth_env(repository)
    \o <<"Type=oneshot",
         "ExecStartPre=restic unlock",
         "ExecStart=restic prune",
         "Nice=10",
         "IOSchedulingClass=idle">>

\* the early return of generate_forget_service
forget_applicable(repository) == has_forget_policy(repository)

prune_applicable_always(repository) == TRUE

\* the early return of generate_prune_service
prune_applicable(repository) == has_forget_policy(repository)

unit_applicable(kind, repository) ==
    CASE kind = "backup" -> TRUE
      [] kind = "forget" -> forget_applicable(repository)
      [] kind = "prune"  -> prune_applicable(repository)

unit_lines(kind, ctx, cfg, repository) ==
    CASE kind = "backup" -> backup_unit(ctx, cfg, repository)
      [] kind = "forget" -> forget_unit(ctx, cfg, repository)
      [] kind = "prune"  -> prune_unit(ctx, cfg, repository)

-----------------------------------------------------------------------------
(* main.rs: main, one action per step that can fail *)

ProgramName == "restic-generator"

try_ignoring_errors(failed, next) == next

\* the ? operator: an Err returns from main at once
try(failed, next) == IF failed THEN "err" ELSE next

\* default_config_path: a Result<PathBuf>, None standing for Err
default_config_path(user) ==
    IF user
      THEN IF is_some(env.HOME)
             THEN Some(path_join(env.HOME[1], ".config/restic-generator/config.toml"))
             ELSE None
      ELSE Some("/etc/restic-generator/config.toml")

\* let Some(normal_dir) = env::args().nth(1) else { usage; exit(1) }
ParseArgs ==
    /\ pc = "start"
    /\ IF Len(args) >= 1
         THEN /\ normal_dir' = args[1]
              /\ pc' = "resolve"
              /\ error' = error
         ELSE /\ normal_dir' = normal_dir
              /\ pc' = "err"
              /\ error' = "usage"
    /\ UNCHANGED <<args, env, disk, context, config, idx, fs, emitted, fn_in, fn_out>>

\* env::var("RESTIC_GENERATOR_CONFIG").map(..).unwrap_or(default_config_path(is_user)?):
\* the argument of unwrap_or, and its ?, are evaluated before unwrap_or is called
ResolveConfigPath ==
    /\ pc = "resolve"
    /\ LET is_user == is_some(env.USER)
           default == default_config_path(is_user)
       IN  IF is_some(default)
             THEN /\ context' = [context EXCEPT
                        !.config_path = unwrap_or(env.RESTIC_GENERATOR_CONFIG, default[1])]
                  /\ pc' = "hostname"
                  /\ error' = error
             ELSE /\ context' = context
                  /\ pc' = try(TRUE, "hostname")
                  /\ error' = "HOME environment variable not found"
    /\ UNCHANGED <<args, env, disk, normal_dir, config, idx, fs, emitted, fn_in, fn_out>>

HostnameResults == {None, Some("laptop")}

\* hostname: sys::hostname()?
Hostname ==
    /\ pc = "hostname"
    /\ \E h \in HostnameResults :
          IF is_some(h)
            THEN /\ context' = [context EXCEPT !.hostname = h[1],
                                               !.program_name = ProgramName]
                 /\ pc' = "read"
                 /\ error' = error
            ELSE /\ context' = context
                 /\ pc' = try(TRUE, "read")
                 /\ error' = "gethostname failed"
    /\ UNCHANGED <<args, env, disk, normal_dir, config, idx, fs, emitted, fn_in, fn_out>>

\* where the for loop goes from repository i - 1: to repository i, or to Ok(())
loop_at(i, cfg) == IF i <= Len(cfg.repositories) THEN "backup" ELSE "ok"

\* read_config(&context.config_path).with_context(..)?
ReadConfig ==
    /\ pc = "read"
    /\ IF is_some(disk)
         THEN /\ config' = disk
              /\ idx' = 1
              /\ pc' = loop_at(1, disk[1])
              /\ error' = error
         ELSE /\ config' = config
              /\ idx' = idx
              /\ pc' = try(TRUE, "backup")
              /\ error' = "error reading config"
    /\ UNCHANGED <<args, env, disk, normal_dir, context, fs, emitted, fn_in, fn_out>>

\* One generate_<kind>_service call and the ? after it.  n is how far the call got:
\* -1 when File::create failed, otherwise the number of writeln! that succeeded.
generate(kind, next, nextidx) ==
    LET repository == config[1].repositories[idx]
        path == unit_path(normal_dir, repository.name, kind)
        lines == unit_lines(kind, context, config[1], repository)
    IN  IF ~unit_applicable(kind, repository)
          THEN /\ pc' = try(FALSE, next)
               /\ idx' = nextidx
               /\ UNCHANGED <<fs, emitted, error>>
          ELSE \E n \in (-1) .. Len(lines) :
                 /\ fs' = IF n = -1 THEN fs
                          ELSE (path :> SubSeq(lines, 1, n)) @@ fs
                 /\ emitted' = IF n = -1 THEN emitted
                               ELSE Append(emitted,
                                      [repo |-> idx, kind |-> kind, path |-> path,
                                       complete |-> (n = Len(lines))])
                 /\ pc' = try(n < Len(lines), next)
                 /\ idx' = IF pc' = "err" THEN idx ELSE nextidx
                 /\ error' = IF n = Len(lines) THEN error
                             ELSE IF n = -1 THEN "error creating file"
                             ELSE "write error"

GenerateBackup ==
    /\ pc = "backup"
    /\ generate("backup", "forget", idx)
    /\ UNCHANGED <<args, env, disk, normal_dir, context, config, fn_in, fn_out>>

GenerateForget ==
    /\ pc = "forget"
    /\ generate("forget", "prune", idx)
    /\ UNCHANGED <<args, env, disk, normal_dir, context, config, fn_in, fn_out>>

GeneratePrune ==
    /\ pc = "prune"
    /\ generate("prune", loop_at(idx + 1, config[1]), idx + 1)
    /\ UNCHANGED <<args, env, disk, normal_dir, context, config, fn_in, fn_out>>

Next ==
    \/ ParseArgs
    \/ ResolveConfigPath
    \/ Hostname
    \/ ReadConfig
    \/ GenerateBackup
    \/ GenerateForget
    \/ GeneratePrune

-----------------------------------------------------------------------------
(* The inputs the runs are checked on *)

NormalDir == "/run/systemd/generator"

ArgForms ==
    { <<>>,
      <<NormalDir, "/run/systemd/generator.early", "/run/systemd/generator.late">>,
      <<"-c", "example-config.toml", NormalDir, "/run/systemd/generator.early",
        "/run/systemd/generator.late">> }

Envs ==
    [USER : {None, Some("alice")},
     HOME : {None, Some("/home/alice")},
     RESTIC_GENERATOR_CONFIG : {None, Some("/tmp/override.toml")}]

SystemEnv == [USER |-> None, HOME |-> None, RESTIC_GENERATOR_CONFIG |-> None]

Names == {"myrepo", "myrepo-forget"}

Locations == {"/media/backup", "sftp:user@host:/srv/restic-repo"}

Retentions == {"none", "last", "within"}

with_retention(r, which) ==
    CASE which = "none"   -> r
      [] which = "last"   -> [r EXCEPT !.keep_last = Some(42)]
      [] which = "within" -> [r EXCEPT !.keep_within = Some("2y5m7d3h")]

Repositories ==
    { with_retention(DefaultRepository(n, l), k) :
        n \in Names, l \in Locations, k \in Retentions }

RepositoryLists == UNION { [1 .. n -> Repositories] : n \in 0 .. MaxRepos }

Configs ==
    [source : {"/home"}, exclude : {<<"foo", "bar.baz">>},
     repositories : RepositoryLists, host : {Some("nas")}]

\* the shape of the example configuration the integration tests run on: a local
\* repository with a retention policy, an sftp one and an s3 one
ExampleConfig ==
    [source |-> "/", exclude |-> <<>>, host |-> None,
     repositories |->
       << [DefaultRepository("myrepo", "%h/backup") EXCEPT
             !.password_file = Some("/etc/restic/password"),
             !.keep_daily = Some(7), !.keep_tag = Some("important")],
          DefaultRepository("sftprepo", "sftp:user@host:/srv/restic-repo"),
          [DefaultRepository("s3bucket", "s3:s3.amazonaws.com/bucket_name") EXCEPT
             !.password_command = Some("pass show restic"),
             !.aws_access_key = Some("AKIA"),
             !.aws_secret_access_key = Some("secret")] >>]

InitRun ==
    /\ pc = "start"
    /\ error = ""
    /\ normal_dir = ""
    /\ context = [config_path |-> "", program_name |-> "", hostname |-> ""]
    /\ config = None
    /\ idx = 0
    /\ fs = <<>>
    /\ emitted = <<>>
    /\ fn_in = None
    /\ fn_out = None

\* every command line and environment on the example configuration (or an unreadable
\* one), and every configuration of the bounds on the generator's usual invocation
Init ==
    /\ InitRun
    /\ \/ /\ args \in ArgForms
          /\ env \in Envs
          /\ disk \in {None, Some(ExampleConfig)}
       \/ /\ args = <<NormalDir, "/run/systemd/generator.early",
                      "/run/systemd/generator.late">>
          /\ env = SystemEnv
          /\ disk \in {Some(c) : c \in Configs}

Spec == Init /\ [][Next]_vars

-----------------------------------------------------------------------------
(* The pure functions, each applied to inputs drawn from bounded sets *)

Idle ==
    /\ args = <<>>
    /\ env = SystemEnv
    /\ disk = None
    /\ pc = "fn"
    /\ error = ""
    /\ normal_dir = ""
    /\ context = [config_path |-> "", program_name |-> "", hostname |-> ""]
    /\ config = None
    /\ idx = 0
    /\ fs = <<>>
    /\ emitted = <<>>

LocationInputs ==
    { "/media/backup", "%h/backup", "", "s3", "sftp:user@host:/srv/restic-repo",
      "s3:s3.amazonaws.com/bucket_name", "swift:container_name:/path",
      "b2:bucketname:path/to/repo", "azure:foo:/", "gs:foo:/", "rclone:foo:bar" }
    \cup { pre \o scheme \o sep \o rest :
             pre \in {"", "/", " ", "x"},
             scheme \in {"azure", "b2", "gs", "rclone", "s3", "sftp", "swift",
                         "S3", "Azure", "SFTP", "file", "b", "rclon", ""},
             sep \in {":", "", "/", ";"},
             rest \in {"", "foo:/", "bucket"} }

InitLocal ==
    /\ Idle
    /\ fn_in \in {Some(l) : l \in LocationInputs}
    /\ fn_out = None

ClassifyLocation ==
    /\ fn_out = None
    /\ fn_out' = Some(is_local_repository(fn_in[1]))
    /\ UNCHANGED <<runVars, fn_in>>

NextLocal == ClassifyLocation

SpecLocal == InitLocal /\ [][NextLocal]_vars

HostInputs == {"laptop", "my host", ""}

SourceInputs == {"/", "/home/alice", "/srv/my data"}

PatternInputs == {"foo", "bar.baz", "*.tmp"}

ExcludeInputs == UNION { [1 .. n -> PatternInputs] : n \in 0 .. MaxExcludes }

InitBackupCmd ==
    /\ Idle
    /\ fn_in \in {Some([source |-> s, host |-> h, exclude |-> e]) :
                    s \in SourceInputs, h \in HostInputs, e \in ExcludeInputs}
    /\ fn_out = None

BuildBackupCmd ==
    /\ fn_out = None
    /\ fn_out' = Some(backup_cmd(fn_in[1].source, fn_in[1].host, fn_in[1].exclude))
    /\ UNCHANGED <<runVars, fn_in>>

NextBackupCmd == BuildBackupCmd

SpecBackupCmd == InitBackupCmd /\ [][NextBackupCmd]_vars

CountInputs == {None, Some(0), Some(42)}

RetentionInputs ==
    [keep_last : CountInputs, keep_hourly : CountInputs, keep_daily : {None, Some(7)},
     keep_weekly : {None, Some(105)}, keep_monthly : {None, Some(12)},
     keep_yearly : {None, Some(3)}, keep_tag : {None, Some("important")},
     keep_within : {None, Some("2y5m7d3h")}]

with_policy(r, k) ==
    [r EXCEPT !.keep_last = k.keep_last, !.keep_hourly = k.keep_hourly,
              !.keep_daily = k.keep_daily, !.keep_weekly = k.keep_weekly,
              !.keep_monthly = k.keep_monthly, !.keep_yearly = k.keep_yearly,
              !.keep_tag = k.keep_tag, !.keep_within = k.keep_within]

InitForgetCmd ==
    /\ Idle
    /\ fn_in \in {Some([host |-> h, path |-> s,
                        repository |-> with_policy(DefaultRepository("myrepo", "/media/backup"), k)]) :
                    h \in HostInputs, s \in SourceInputs, k \in RetentionInputs}
    /\ fn_out = None

BuildForgetCmd ==
    /\ fn_out = None
    /\ fn_out' = Some(forget_cmd(fn_in[1].host, fn_in[1].path, fn_in[1].repository))
    /\ UNCHANGED <<runVars, fn_in>>

NextForgetCmd == BuildForgetCmd

SpecForgetCmd == InitForgetCmd /\ [][NextForgetCmd]_vars

-----------------------------------------------------------------------------
(* What the properties below speak of *)

Loaded == is_some(config)

RepoIndexes == IF Loaded THEN 1 .. Len(config[1].repositories) ELSE {}

Repo(i) == config[1].repositories[i]

\* at least one of the eight retention fields is present
AnyRetentionField(r) == \E i \in 1 .. Len(RetentionFields) : r[RetentionFields[i]] # None

\* the run created the file of unit kind k for repository entry i
Created(i, k) ==
    \E j \in 1 .. Len(emitted) : emitted[j].repo = i /\ emitted[j].kind = k

\* ... and wrote it to its last line
Written(i, k) ==
    \E j \in 1 .. Len(emitted) :
        emitted[j].repo = i /\ emitted[j].kind = k /\ emitted[j].complete

OutputPath(i, k) == unit_path(normal_dir, Repo(i).name, k)

OutputPaths(i) == { OutputPath(i, k) : k \in UnitKinds }

RemotePrefixes == {"azure:", "b2:", "gs:", "rclone:", "s3:", "sftp:", "swift:"}

\* s = p \o t for some t
HasPrefix(s, p) == Len(s) >= Len(p) /\ p \o SubSeq(s, Len(p) + 1, Len(s)) = s

IsRemote(location) == \E p \in RemotePrefixes : HasPrefix(location, p)

\* the unit emitted as entry j of the run is still the content of its file
Rendered(j) ==
    /\ emitted[j].complete
    /\ \A k \in (j + 1) .. Len(emitted) : emitted[k].path # emitted[j].path

IsCondition(line) == HasPrefix(line, "ConditionPathExists=")

ConditionLines(lines) == SelectSeq(lines, IsCondition)

Occurs(lines, line) == \E n \in 1 .. Len(lines) : lines[n] = line

-----------------------------------------------------------------------------
(* C1: after a successful run, a repository with none of the eight retention
   fields has no forget and no prune unit produced for it, and a repository
   with at least one of them has both. *)
C1_ForgetPruneIffRetention ==
    pc = "ok" =>
      \A i \in RepoIndexes :
        IF AnyRetentionField(Repo(i))
          THEN /\ Written(i, "forget") /\ Written(i, "prune")
               /\ OutputPath(i, "forget") \in DOMAIN fs
               /\ OutputPath(i, "prune") \in DOMAIN fs
          ELSE /\ ~Created(i, "forget") /\ ~Created(i, "prune")
               /\ (\A j \in RepoIndexes :
                      Repo(j).name = Repo(i).name => ~AnyRetentionField(Repo(j)))
                  => /\ OutputPath(i, "forget") \notin DOMAIN fs
                     /\ OutputPath(i, "prune") \notin DOMAIN fs

C1_Witness ==
    /\ pc = "ok"
    /\ \E i, j \in RepoIndexes :
          /\ Repo(i).keep_within # None /\ Repo(i).keep_last = None
          /\ Written(i, "prune")
          /\ ~AnyRetentionField(Repo(j))
          /\ Written(j, "backup")

(* C2: invoked as -c <path> <normal-dir> <early-dir> <late-dir>, a successful run
   has read the configuration from <path> and written the unit files into
   <normal-dir>, so that <normal-dir>/restic-myrepo-backup.service exists. *)
C2_DashCSelectsConfigAndNormalDir ==
    (Len(args) = 5 /\ args[1] = "-c" /\ pc = "ok") =>
      /\ context.config_path = args[2]
      /\ normal_dir = args[3]
      /\ \A p \in DOMAIN fs : HasPrefix(p, args[3] \o "/")
      /\ (args[3] \o "/restic-myrepo-backup.service") \in DOMAIN fs

(* C3: once the configuration path is resolved: with RESTIC_GENERATOR_CONFIG set
   it is that value and resolution did not fail, whatever USER and HOME are;
   otherwise with USER set it is <HOME>/.config/restic-generator/config.toml,
   a missing HOME being an error; otherwise it is
   /etc/restic-generator/config.toml. *)
C3_OverrideThenUserThenSystem ==
    (pc \notin {"start", "resolve"} /\ error # "usage") =>
      IF env.RESTIC_GENERATOR_CONFIG # None
        THEN /\ error # "HOME environment variable not found"
             /\ context.config_path = env.RESTIC_GENERATOR_CONFIG[1]
        ELSE IF env.USER # None
          THEN IF env.HOME # None
                 THEN /\ error # "HOME environment variable not found"
                      /\ context.config_path =
                           env.HOME[1] \o "/.config/restic-generator/config.toml"
                 ELSE error = "HOME environment variable not found"
          ELSE /\ error # "HOME environment variable not found"
               /\ context.config_path = "/etc/restic-generator/config.toml"

KeepFlags ==
    <<"--keep-last", "--keep-hourly", "--keep-daily", "--keep-weekly",
      "--keep-monthly", "--keep-yearly", "--keep-tag", "--keep-within">>

\* the text of the value of retention field i: a count in decimal, a string as it is
KeepValueText(r, i) ==
    IF i <= 6 THEN ToString(r[RetentionFields[i]][1]) ELSE r[RetentionFields[i]][1]

\* " --keep-<kind>=\"<value>\"" for each present field from the i-th on, in the fixed order
RECURSIVE KeepText(_, _)
KeepText(r, i) ==
    IF i > Len(RetentionFields) THEN ""
    ELSE (IF r[RetentionFields[i]] = None THEN ""
          ELSE " " \o KeepFlags[i] \o "=\"" \o KeepValueText(r, i) \o "\"")
         \o KeepText(r, i + 1)

(* C4: forget_cmd returns restic forget --host="<host>" --path="<path>" followed
   by exactly one --keep-<kind>="<value>" token for each present retention field
   and none for an absent one, in the order last, hourly, daily, weekly, monthly,
   yearly, tag, within, the tokens joined by single spaces. *)
C4_ForgetCmdTokens ==
    fn_out # None =>
      fn_out[1] = "restic forget --host=\"" \o fn_in[1].host \o "\" --path=\""
                  \o fn_in[1].path \o "\"" \o KeepText(fn_in[1].repository, 1)

C4_Witness ==
    /\ fn_out # None
    /\ fn_in[1].repository.keep_last = None
    /\ fn_in[1].repository.keep_hourly = Some(0)
    /\ fn_in[1].repository.keep_weekly = Some(105)
    /\ fn_in[1].repository.keep_yearly = None
    /\ fn_in[1].repository.keep_tag # None
    /\ fn_in[1].repository.keep_within # None

\* " --exclude=\"<pattern>\"" for the first n entries of the list, in its order
RECURSIVE ExcludeText(_, _)
ExcludeText(exclude, n) ==
    IF n = 0 THEN ""
    ELSE ExcludeText(exclude, n - 1) \o " --exclude=\"" \o exclude[n] \o "\""

(* C5: backup_cmd returns restic backup --host="<host>", then one
   --exclude="<pattern>" token per exclude entry in the order and multiplicity of
   the list (none for an empty list), then the unquoted source path, the tokens
   joined by single spaces. *)
C5_BackupCmdTokens ==
    fn_out # None =>
      fn_out[1] = "restic backup --host=\"" \o fn_in[1].host \o "\""
                  \o ExcludeText(fn_in[1].exclude, Len(fn_in[1].exclude))
                  \o " " \o fn_in[1].source

C5_Witness ==
    /\ fn_out # None
    /\ Len(fn_in[1].exclude) >= 2
    /\ fn_in[1].exclude[1] = "foo"
    /\ fn_in[1].exclude[2] = "bar.baz"

(* C6: is_local_repository(location) is false iff location begins with one of
   azure:, b2:, gs:, rclone:, s3:, sftp:, swift: (a literal, case-sensitive
   prefix); it is true for every other string. *)
C6_RemoteIffSchemePrefix ==
    fn_out # None => (fn_out[1] = FALSE <=> IsRemote(fn_in[1]))

C6_Witness ==
    /\ fn_out = Some(FALSE)
    /\ fn_in[1] = "rclone:foo:bar"

\* the original reading of C7: the repository clause in each of the three kinds
C7_Original ==
    \A j \in 1 .. Len(emitted) :
      Rendered(j) =>
        LET lines == fs[emitted[j].path]
            location == Repo(emitted[j].repo).location
        IN  /\ IsRemote(location) <=> ~Occurs(lines, "ConditionPathExists=" \o location)
            /\ Occurs(lines, "ConditionPathExists=" \o config[1].source)
                 <=> emitted[j].kind = "backup"

(* C7 (amended): a rendered backup unit holds the clause ConditionPathExists=<source>
   and, after it, ConditionPathExists=<location> exactly when the repository
   location is local; a rendered forget or prune unit holds no
   ConditionPathExists clause at all, whatever the location. *)
C7_ConditionClauses ==
    \A j \in 1 .. Len(emitted) :
      Rendered(j) =>
        LET lines == fs[emitted[j].path]
            location == Repo(emitted[j].repo).location
        IN  ConditionLines(lines) =
              IF emitted[j].kind # "backup" THEN <<>>
              ELSE IF IsRemote(location)
                THEN <<"ConditionPathExists=" \o config[1].source>>
                ELSE <<"ConditionPathExists=" \o config[1].source,
                       "ConditionPathExists=" \o location>>

C7_Witness ==
    /\ pc = "ok"
    /\ \E j, k \in 1 .. Len(emitted) :
          /\ Rendered(j) /\ emitted[j].kind = "forget"
          /\ ~IsRemote(Repo(emitted[j].repo).location)
          /\ Rendered(k) /\ emitted[k].kind = "backup"
          /\ IsRemote(Repo(emitted[k].repo).location)

\* the original reading of C8: any two entries have disjoint output paths
C8_Original ==
    \A i, j \in RepoIndexes : i # j => OutputPaths(i) \cap OutputPaths(j) = {}

(* C8 (amended): two repository entries whose names differ have disjoint sets of
   output paths, and two entries of the same name have the same three paths; after
   a successful run every file of a repository whose name no other entry has was
   created once, by that entry. *)
C8_DisjointPathsForDistinctNames ==
    /\ \A i, j \in RepoIndexes :
          i # j =>
            IF Repo(i).name # Repo(j).name
              THEN OutputPaths(i) \cap OutputPaths(j) = {}
              ELSE OutputPaths(i) = OutputPaths(j)
    /\ pc = "ok" =>
         \A i \in RepoIndexes :
           (\A j \in RepoIndexes : j # i => Repo(j).name # Repo(i).name) =>
             \A k \in UnitKinds :
               \A e \in 1 .. Len(emitted) :
                 emitted[e].path = OutputPath(i, k) =>
                   /\ emitted[e].repo = i
                   /\ emitted[e].kind = k
                   /\ Rendered(e)

C8_Witness ==
    /\ pc = "ok"
    /\ \E i, j \in RepoIndexes :
          /\ Repo(i).name # Repo(j).name
          /\ Written(i, "forget") /\ Written(i, "prune")
          /\ Written(j, "forget") /\ Written(j, "prune")

\* every applicable unit file of every repository is there, written to its last line
AllUnitsComplete ==
    \A i \in RepoIndexes :
      \A k \in UnitKinds :
        (k = "backup" \/ AnyRetentionField(Repo(i))) =>
          /\ Written(i, k)
          /\ OutputPath(i, k) \in DOMAIN fs
          /\ LET lines == fs[OutputPath(i, k)]
             IN  Len(lines) > 0 /\ lines[Len(lines)] = "IOSchedulingClass=idle"

(* C9: a run ends successfully only with every applicable unit file of every
   repository written completely; a failing step ends it in the error state at
   once, and from the error state nothing is created or written any more. *)
C9_CompleteOrAbort ==
    [][ /\ pc' = "ok" => AllUnitsComplete'
        /\ error' # error => pc' = "err"
        /\ pc = "err" => (pc' = "err" /\ fs' = fs /\ emitted' = emitted) ]_vars

C9_Witness ==
    /\ pc = "err"
    /\ error = "write error"
    /\ Len(emitted) >= 4
    /\ ~emitted[Len(emitted)].complete

\* the original reading of C10: in every ended run, aborted ones included
C10_Original ==
    pc \in {"ok", "err"} =>
      \A i \in RepoIndexes : Written(i, "forget") <=> Written(i, "prune")

(* C10 (amended): in every state in which a run has ended successfully, a
   repository's forget unit file has been written by the run iff its prune unit
   file has; a run aborted by an error may have written the forget file without
   the prune file, but in no state has a prune file been created without the
   forget file of the same repository written completely. *)
C10_ForgetWithPrune ==
    \A i \in RepoIndexes :
      /\ pc = "ok" => (Written(i, "forget") <=> Written(i, "prune"))
      /\ Created(i, "prune") => Written(i, "forget")

C10_Witness ==
    /\ pc = "err"
    /\ \E i \in RepoIndexes : Written(i, "forget") /\ ~Created(i, "prune")

=============================================================================
